---------------------------- MODULE Spec2Model ----------------------------
(***************************************************************************)
(* Model of src/lib/poller.js: the poll loop with random interval and 403   *)
(* backoff, the enable signal that gates it (switchMap), and the two        *)
(* periodic side-effect timers (authentication, app-version refresh).       *)
(*                                                                          *)
(* Time is the value of Date.now() in milliseconds, counted from the        *)
(* subscription of pollFavoriteBusinesses$.  A pending timer or promise is  *)
(* a deadline; time never passes a pending deadline before it has fired.    *)
(*                                                                          *)
(* An optional JavaScript value (undefined / null / absent) is a set with   *)
(* at most one element: {} is "absent", {v} is the value v.                 *)
(***************************************************************************)
EXTENDS Integers, Sequences, FiniteSets, TLC

(***************************************************************************)
(* Program constants (src/lib/poller.js:32-37 and the config fallbacks of   *)
(* lines 61-63).                                                            *)
(***************************************************************************)
MINIMAL_POLLING_INTERVAL == 15000
MINIMAL_AUTHENTICATION_INTERVAL == 3600000
APP_VERSION_REFRESH_INTERVAL == 86400000
DEFAULT_POLLING_MIN_MS == 40000
DEFAULT_POLLING_MAX_MS == 120000
DEFAULT_THRESHOLD == 3
DEFAULT_WINDOW_MS == 300000
DEFAULT_COOLDOWN_MS == 600000
HTTP_FORBIDDEN == 403
RETRY_COUNT == 2

(***************************************************************************)
(* Bounds of the model.                                                     *)
(***************************************************************************)
\* the horizon: no step takes Date.now() beyond it
MaxTime == 90000000
\* listFavoriteBusinesses is invoked at most this often in one run
MaxFetches == 3
\* enabled$ emits at most this many values in one run
MaxSignals == 3
\* each of the two periodic timers fires at most this often in one run
MaxFires == 2
\* Math.random() is r / RandDenom for an r of 0 .. RandDenom - 1; the draws
\* taken are the least (0) and the greatest
RandDenom == 4
\* a remote call (listFavoriteBusinesses, login, updateAppVersion) settles
\* SlowCall ms after it was invoked
SlowCall == 20000
\* the horizon of a poll loop followed on its own
TrackerMaxTime == 800000
\* how many cycles of a loop are followed when every shape of error is drawn
MaxClassifyCycles == 1

Max(a, b) == IF a >= b THEN a ELSE b

SetMin(S) == CHOOSE x \in S : \A y \in S : x <= y

\* the value of a present optional
Val(o) == CHOOSE x \in o : TRUE

(***************************************************************************)
(* Configuration: config.get(path) for the seven paths the module reads.    *)
(***************************************************************************)
Cfg(min, max, legacy, auth, threshold, window, cooldown) ==
    [ pollingIntervalMinInMs |-> min, pollingIntervalMaxInMs |-> max,
      pollingIntervalInMs |-> legacy, authenticationIntervalInMS |-> auth,
      threshold |-> threshold, windowMs |-> window, cooldownMs |-> cooldown ]

Configs ==
    { Cfg({}, {}, {}, {}, {}, {}, {}),
      Cfg({}, {}, {180000}, {}, {3}, {300000}, {600000}),
      Cfg({5000}, {10000}, {60000}, {1000}, {1}, {}, {}),
      Cfg({43200000}, {}, {}, {86400000}, {2}, {50000000}, {86400000}) }

\* _.isFinite(v): the value is a finite number (an absent value is not)
IsFinite(v) == v # {}

\* getInterval(configPath, minimumIntervalInMs)
GetInterval(configured, minimumIntervalInMs) ==
    IF IsFinite(configured)
    THEN Max(Val(configured), minimumIntervalInMs)
    ELSE minimumIntervalInMs

\* getConfiguredInt(configPath, fallback); the values drawn are integers
GetConfiguredInt(v, fallback) == IF IsFinite(v) THEN Val(v) ELSE fallback

\* getConfiguredNumber(configPath): the number, or null (absent)
GetConfiguredNumber(v) == IF IsFinite(v) THEN v ELSE {}

\* randomIntInclusive(min, max) with Math.random() = r / RandDenom; on
\* integers Math.ceil and Math.floor are the identity
RandomIntInclusive(min, max, r) == ((r * (max - min + 1)) \div RandDenom) + min

\* a range that lets the legacy interval win whenever it is configured
PollingRangeLegacyFirst(c) ==
    LET cfgMin == GetConfiguredNumber(c.pollingIntervalMinInMs)
        cfgMax == GetConfiguredNumber(c.pollingIntervalMaxInMs)
        legacyFixed == GetConfiguredNumber(c.pollingIntervalInMs)
        minMs0 == IF legacyFixed # {} THEN Val(legacyFixed)
                  ELSE IF cfgMin # {} THEN Val(cfgMin) ELSE DEFAULT_POLLING_MIN_MS
        maxMs0 == IF legacyFixed # {} THEN Val(legacyFixed)
                  ELSE IF cfgMax # {} THEN Val(cfgMax) ELSE DEFAULT_POLLING_MAX_MS
        minMs == Max(minMs0, MINIMAL_POLLING_INTERVAL)
        maxMs == Max(maxMs0, minMs)
    IN  [minMs |-> minMs, maxMs |-> maxMs]

\* a range without the hard floor on the minimum
PollingRangeNoFloor(c) ==
    LET cfgMin == GetConfiguredNumber(c.pollingIntervalMinInMs)
        cfgMax == GetConfiguredNumber(c.pollingIntervalMaxInMs)
        legacyFixed == GetConfiguredNumber(c.pollingIntervalInMs)
        minMs == IF cfgMin = {} /\ cfgMax = {}
                 THEN IF legacyFixed # {} THEN Val(legacyFixed)
                      ELSE DEFAULT_POLLING_MIN_MS
                 ELSE IF cfgMin # {} THEN Val(cfgMin) ELSE DEFAULT_POLLING_MIN_MS
        maxMs0 == IF cfgMin = {} /\ cfgMax = {}
                  THEN IF legacyFixed # {} THEN Val(legacyFixed)
                       ELSE DEFAULT_POLLING_MAX_MS
                  ELSE IF cfgMax # {} THEN Val(cfgMax) ELSE DEFAULT_POLLING_MAX_MS
        maxMs == Max(maxMs0, minMs)
    IN  [minMs |-> minMs, maxMs |-> maxMs]

\* the effective [minMs, maxMs] of getRandomPollingIntervalInMs
PollingRange(c) ==
    LET cfgMin == GetConfiguredNumber(c.pollingIntervalMinInMs)
        cfgMax == GetConfiguredNumber(c.pollingIntervalMaxInMs)
        legacyFixed == GetConfiguredNumber(c.pollingIntervalInMs)
        minMs0 == IF cfgMin = {} /\ cfgMax = {}
                  THEN IF legacyFixed # {} THEN Val(legacyFixed)
                       ELSE DEFAULT_POLLING_MIN_MS
                  ELSE IF cfgMin # {} THEN Val(cfgMin) ELSE DEFAULT_POLLING_MIN_MS
        maxMs0 == IF cfgMin = {} /\ cfgMax = {}
                  THEN IF legacyFixed # {} THEN Val(legacyFixed)
                       ELSE DEFAULT_POLLING_MAX_MS
                  ELSE IF cfgMax # {} THEN Val(cfgMax) ELSE DEFAULT_POLLING_MAX_MS
        minMs == Max(minMs0, MINIMAL_POLLING_INTERVAL)
        maxMs == Max(maxMs0, minMs)
    IN  [minMs |-> minMs, maxMs |-> maxMs]

\* getRandomPollingIntervalInMs() with Math.random() = r / RandDenom
GetRandomPollingIntervalInMs(c, r) ==
    RandomIntInclusive(PollingRange(c).minMs, PollingRange(c).maxMs, r)

(***************************************************************************)
(* Values exchanged with the remote API client.                             *)
(***************************************************************************)
\* an error: the four places isHttp403 looks for a status, and what logError
\* looks at
Err(rStatusCode, rStatus, statusCode, status, options, stack) ==
    [ rStatusCode |-> rStatusCode, rStatus |-> rStatus,
      statusCode |-> statusCode, status |-> status,
      options |-> options, stack |-> stack ]

Errors ==
    { Err({403}, {}, {}, {}, TRUE, TRUE),
      Err({500}, {}, {}, {}, TRUE, TRUE),
      Err({}, {}, {}, {}, FALSE, TRUE) }

\* JavaScript values a response may hold as its items property: undefined
\* (the response has no such property), null, or an array ([] is Arr(<<>>))
JsUndefined == [t |-> "undefined", v |-> <<>>]

JsNull == [t |-> "null", v |-> <<>>]

Arr(elements) == [t |-> "array", v |-> elements]

\* !!x for these values: undefined and null are falsy, every array is truthy
Truthy(x) == x.t = "array"

\* a response, by its items property
Responses ==
    { [items |-> JsUndefined], [items |-> JsNull], [items |-> Arr(<<>>)],
      [items |-> Arr(<<"a", "b">>)] }

\* the outcomes a listFavoriteBusinesses() promise settles with: it resolves
\* with a response or rejects with an error
Outcomes ==
    { [ok |-> TRUE, response |-> r, err |-> Err({}, {}, {}, {}, FALSE, FALSE)]
        : r \in Responses }
    \cup { [ok |-> FALSE, response |-> [items |-> JsUndefined], err |-> e]
              : e \in Errors }

\* a ?? b
Nullish(a, b) == IF a # {} THEN a ELSE b

\* a classification that looks for a 403 in any of the four places
IsHttp403AnyLocation(error) ==
    HTTP_FORBIDDEN \in
        (error.rStatusCode \cup error.rStatus \cup error.statusCode
            \cup error.status)

\* isHttp403(error)
IsHttp403(error) ==
    LET code == Nullish(error.rStatusCode,
                  Nullish(error.rStatus,
                    Nullish(error.statusCode, error.status)))
    IN  code = {HTTP_FORBIDDEN}

\* logError(error): what is written to console.error
LogError(error) ==
    IF error.options THEN <<"error:request">>
    ELSE IF error.stack THEN <<"error:stack">>
    ELSE <<"error:plain">>

\* retry(2) on from(promise): how often from(promise) is subscribed until the
\* event is out: once when the promise resolved, and RETRY_COUNT times more
\* when it rejected
RetrySubscriptions(outcome) == IF outcome.ok THEN 1 ELSE 1 + RETRY_COUNT

\* how often listFavoriteBusinesses has been invoked for the cycle once its
\* event is out: the call is the argument of from(), evaluated once by
\* runOnce$ (calls counts it); a subscription of retry subscribes to the same
\* promise and invokes nothing
RetryInvocations(calls, outcome) == calls

\* from(promise).pipe(retry(2), map(success), catchError(of(error))): retry
\* subscribes again to the same settled promise, which yields the same
\* outcome; the event handed to expand
RunOnceEvent(outcome) ==
    IF outcome.ok
    THEN [kind |-> "success", response |-> outcome.response, err |-> outcome.err]
    ELSE [kind |-> "error", response |-> outcome.response, err |-> outcome.err]


(***************************************************************************)
(* The 403 backoff tracker and the delay calculation: the body of the       *)
(* expand callback of pollLoopWith403Backoff$.                              *)
(***************************************************************************)
\* the fresh closure state of defer(() => { const state = ... })
FreshState == [error403Timestamps |-> <<>>, cooldownUntil |-> 0]

\* the timestamps without the filter: nothing is ever pruned
PruneWindowKeepsAll(timestamps, t, windowMs) == timestamps

\* state.error403Timestamps.filter((t) => now - t <= windowMs)
PruneWindow(timestamps, t, windowMs) ==
    LET InWindow(x) == t - x <= windowMs
    IN  SelectSeq(timestamps, InWindow)

\* a comparison that trips one failure late
ThresholdExceeded(count, threshold) == count > threshold

\* state.error403Timestamps.length >= threshold
ThresholdReached(count, threshold) == count >= threshold

\* a cooldown counted from now, whatever the previous one was
ArmedFromNow(cooldownUntil, t, cooldownMs) == t + cooldownMs

\* Math.max(state.cooldownUntil, now + cooldownMs)
ArmedCooldownUntil(cooldownUntil, t, cooldownMs) ==
    Max(cooldownUntil, t + cooldownMs)

\* a 403 branch that arms the cooldown and keeps the timestamps
Observe403KeepsSequence(st, t, threshold, windowMs, cooldownMs) ==
    LET pruned == PruneWindow(Append(st.error403Timestamps, t), t, windowMs)
    IN  IF ThresholdReached(Len(pruned), threshold)
        THEN [ error403Timestamps |-> pruned,
               cooldownUntil |->
                   ArmedCooldownUntil(st.cooldownUntil, t, cooldownMs) ]
        ELSE [ error403Timestamps |-> pruned,
               cooldownUntil |-> st.cooldownUntil ]

\* the branch taken on an HTTP-403 error: push, filter, and on reaching the
\* threshold arm the cooldown and clear the timestamps
Observe403(st, t, threshold, windowMs, cooldownMs) ==
    LET pruned == PruneWindow(Append(st.error403Timestamps, t), t, windowMs)
    IN  IF ThresholdReached(Len(pruned), threshold)
        THEN [ error403Timestamps |-> <<>>,
               cooldownUntil |->
                   ArmedCooldownUntil(st.cooldownUntil, t, cooldownMs) ]
        ELSE [ error403Timestamps |-> pruned,
               cooldownUntil |-> st.cooldownUntil ]

\* whether that branch arms the cooldown (the "403 backoff triggered" warning)
Arms403(st, t, threshold, windowMs) ==
    ThresholdReached(
        Len(PruneWindow(Append(st.error403Timestamps, t), t, windowMs)),
        threshold)

\* error handling that forgets the 403 failures on a success
ObserveClearsOnSuccess(st, event, t, threshold, windowMs, cooldownMs) ==
    IF event.kind = "error" /\ IsHttp403(event.err)
    THEN Observe403(st, t, threshold, windowMs, cooldownMs)
    ELSE IF event.kind = "success"
    THEN [st EXCEPT !.error403Timestamps = <<>>]
    ELSE st

\* the tracker state after the error handling of one event
Observe(st, event, t, threshold, windowMs, cooldownMs) ==
    IF event.kind = "error" /\ IsHttp403(event.err)
    THEN Observe403(st, t, threshold, windowMs, cooldownMs)
    ELSE st

\* Math.max(0, state.cooldownUntil - now)
CooldownDelay(cooldownUntil, t) == Max(0, cooldownUntil - t)

\* the delay without the cooldown: the jittered interval alone
NextDelayIgnoresCooldown(randomDelay, cooldownDelay) == randomDelay

\* Math.max(randomDelay, cooldownDelay)
NextDelay(randomDelay, cooldownDelay) == Max(randomDelay, cooldownDelay)

\* what the expand callback writes to the console for one event
ExpandLog(st, event, t, threshold, windowMs, cooldownMs) ==
    LET after == Observe(st, event, t, threshold, windowMs, cooldownMs)
    IN  (IF event.kind = "error" /\ IsHttp403(event.err)
         THEN <<"warn:403">>
              \o (IF Arms403(st, t, threshold, windowMs)
                  THEN <<"warn:backoff-triggered">> ELSE <<>>)
         ELSE IF event.kind = "error" THEN LogError(event.err) ELSE <<>>)
        \o (IF CooldownDelay(after.cooldownUntil, t) > 0
            THEN <<"warn:cooldown-active">> ELSE <<"log:next-poll">>)

\* a filter that also wants the array to hold something
HasNonEmptyItems(response) ==
    Truthy(response.items) /\ Len(response.items.v) > 0

\* !!_.get(response, "items")
HasItems(response) == Truthy(response.items)

\* filter(success), map(response), filter(!!items), map(items): the values one
\* event contributes to the output of the loop
LoopEmissions(event) ==
    IF event.kind = "success" /\ HasItems(event.response)
    THEN <<event.response.items>>
    ELSE <<>>

\* a loop that ends on an error event instead of scheduling the next fetch
CompletedOnError(l, event, t, nextDelay) ==
    IF event.kind = "error"
    THEN [l EXCEPT !.pc = "completed", !.timerAt = {}, !.settleAt = {}]
    ELSE [l EXCEPT !.pc = "scheduled", !.timerAt = {t + nextDelay},
                   !.settleAt = {}]

\* a loop that invokes runOnce$() at once, without the timer
RestartedAtOnce(l, event, t, nextDelay) ==
    [l EXCEPT !.pc = "fetching", !.timerAt = {}, !.settleAt = {t + SlowCall}]

\* return timer(nextDelay).pipe(mergeMap(() => runOnce$())): whatever the
\* event was, the loop instance l waits for a timer set at time t
Rescheduled(l, event, t, nextDelay) ==
    [l EXCEPT !.pc = "scheduled", !.timerAt = {t + nextDelay}, !.settleAt = {}]

\* the side-effect streams without ignoreElements()
PassesElements(values) == values

\* ignoreElements() on the merged side-effect streams
IgnoreElements(values) == <<>>

\* a login stream without catchError: a rejection is its error
LoginUncaught(ok, e) ==
    IF ok THEN [kind |-> "next", values |-> <<"login:value">>, log |-> <<>>]
    ELSE [kind |-> "error", values |-> <<>>, log |-> <<>>]

\* from(login()).pipe(retry(2), catchError(logError)): the value login
\* resolved with; on a rejection retry(2) subscribes twice more to the same
\* rejected promise, then logError logs the error and of(null) replaces it
LoginNotification(ok, e) ==
    IF ok THEN [kind |-> "next", values |-> <<"login:value">>, log |-> <<>>]
    ELSE [kind |-> "next", values |-> <<"null">>, log |-> LogError(e)]

\* mergeMap(updateAppVersion): the value updateAppVersion resolved with; a
\* rejection has no catchError on its way and is the error of the stream
UpdateNotification(ok) ==
    IF ok THEN [kind |-> "next", values |-> <<"update:value">>, log |-> <<>>]
    ELSE [kind |-> "error", values |-> <<>>, log |-> <<>>]

(***************************************************************************)
(* The state.                                                               *)
(***************************************************************************)
VARIABLES
    now,        \* Date.now()
    cfg,        \* the configuration, fixed for the run
    enabled,    \* the latest value of enabled$: "none", "on" or "off"
    signals,    \* how many values enabled$ has emitted
    stream,     \* the stream returned by pollFavoriteBusinesses$: "open", "errored"
    loops,      \* the poll-loop instances switchMap has subscribed, by number
    nloops,     \* how many there are
    fetches,    \* how often listFavoriteBusinesses has been invoked
    logins,     \* how often login has been invoked
    updates,    \* how often updateAppVersion has been invoked
    authAt,     \* the next fire of timer(0, authenticationIntervalInMs)
    loginAt,    \* when the login() promise in flight settles
    verAt,      \* the next fire of timer(0, APP_VERSION_REFRESH_INTERVAL)
    updateAt,   \* when the updateAppVersion() promise in flight settles
    emitted,    \* the values the last step delivered to the subscriber
    logged,     \* what the last step wrote to the console
    last,       \* the last step: what it was and what it decided
    discarded   \* the tracker state of the loop the last unsubscribe dropped

vars == << now, cfg, enabled, signals, stream, loops, nloops, fetches, logins,
           updates, authAt,
           loginAt, verAt, updateAt, emitted, logged, last, discarded >>

MaxLoops == MaxSignals

LoopIds == 1 .. MaxLoops

Threshold == GetConfiguredInt(cfg.threshold, DEFAULT_THRESHOLD)

WindowMs == GetConfiguredInt(cfg.windowMs, DEFAULT_WINDOW_MS)

CooldownMs == GetConfiguredInt(cfg.cooldownMs, DEFAULT_COOLDOWN_MS)

AuthenticationIntervalInMs ==
    GetInterval(cfg.authenticationIntervalInMS, MINIMAL_AUTHENTICATION_INTERVAL)

\* a loop instance: pc is "unborn", "fetching" (a listFavoriteBusinesses
\* promise is awaited), "scheduled" (timer(nextDelay) is pending) or
\* "cancelled" (unsubscribed); st is its closure state; seen403 records the
\* times of the 403 failures it has observed since it last armed a cooldown,
\* startedAt the time it was subscribed, calls how often
\* listFavoriteBusinesses has been invoked for its current cycle and
\* processedAt when expand processed its last outcome (these four only
\* observe the program)
UnbornLoop ==
    [ pc |-> "unborn", st |-> FreshState, timerAt |-> {}, settleAt |-> {},
      seen403 |-> <<>>, startedAt |-> 0, calls |-> 0, processedAt |-> 0 ]

\* a loop that starts from the state the previous one left, as if the state
\* were built once outside defer
StartedLoopKeepsState(t) ==
    [ pc |-> "fetching", st |-> discarded, timerAt |-> {},
      settleAt |-> {t + SlowCall}, seen403 |-> <<>>, startedAt |-> t,
      calls |-> 1, processedAt |-> 0 ]

\* the first subscription step of a loop: defer's factory builds the state,
\* runOnce$() invokes listFavoriteBusinesses() at time t
StartedLoop(t) ==
    [ pc |-> "fetching", st |-> FreshState, timerAt |-> {},
      settleAt |-> {t + SlowCall}, seen403 |-> <<>>, startedAt |-> t,
      calls |-> 1, processedAt |-> 0 ]

Active(l) == l.pc \in {"fetching", "scheduled"}

\* an unsubscribe that clears the timer of a waiting loop and leaves a loop
\* with a fetch in flight subscribed to its promise
UnsubscribedKeepsFetch(l) ==
    IF l.pc = "scheduled"
    THEN [ pc |-> "cancelled", st |-> FreshState, timerAt |-> {},
           settleAt |-> l.settleAt, seen403 |-> <<>>, startedAt |-> 0,
           calls |-> 0, processedAt |-> 0 ]
    ELSE l

\* unsubscribing a loop instance: its timer is cleared and its state is
\* dropped; a promise in flight still settles, unobserved
Unsubscribed(l) ==
    IF Active(l)
    THEN [ pc |-> "cancelled", st |-> FreshState, timerAt |-> {},
           settleAt |-> l.settleAt, seen403 |-> <<>>, startedAt |-> 0,
           calls |-> 0, processedAt |-> 0 ]
    ELSE l

\* mergeMap in place of switchMap: the previous inner subscription stays
MergeMapKeeps(ls) == ls

\* switchMap: the previous inner subscription is unsubscribed before the
\* next value is projected
SwitchMapUnsubscribe(ls) == [i \in LoopIds |-> Unsubscribed(ls[i])]

\* the tracker state an unsubscribe drops (the state kept when none is active)
Dropped(ls, keep) ==
    IF \E i \in LoopIds : Active(ls[i])
    THEN (ls[CHOOSE i \in LoopIds : Active(ls[i])]).st
    ELSE keep

\* every pending deadline: timers and promises in flight
Deadlines ==
    authAt \cup loginAt \cup verAt \cup updateAt
    \cup UNION { loops[i].timerAt \cup loops[i].settleAt : i \in LoopIds }

\* the pc of the loop instance an unsubscribe closes ("none" when none is
\* active)
ClosedPc(ls) ==
    IF \E i \in LoopIds : Active(ls[i])
    THEN (ls[CHOOSE i \in LoopIds : Active(ls[i])]).pc
    ELSE "none"

NoOutcome ==
    [ok |-> TRUE, response |-> [items |-> JsUndefined],
     err |-> Err({}, {}, {}, {}, FALSE, FALSE)]

\* the record of a step: act names it; for a cycle, loop is the instance,
\* outcome what the promise settled with, random and delay the randomDelay
\* and nextDelay computed; for a value of enabled$, prev is the value before
\* it and closed the pc of the instance it unsubscribed
NoStep ==
    [ act |-> "init", loop |-> 0, outcome |-> NoOutcome, delay |-> 0,
      random |-> 0, prev |-> "none", closed |-> "none" ]

Init ==
    /\ now = 0
    /\ cfg \in Configs
    /\ enabled = "none"
    /\ signals = 0
    /\ stream = "open"
    /\ loops = [i \in LoopIds |-> UnbornLoop]
    /\ nloops = 0
    /\ fetches = 0
    /\ logins = 0
    /\ updates = 0
    /\ authAt = {0}
    /\ loginAt = {}
    /\ verAt = {0}
    /\ updateAt = {}
    /\ emitted = <<>>
    /\ logged = <<>>
    /\ last = NoStep
    /\ discarded = FreshState

(***************************************************************************)
(* enabled$ emits a value:                                                  *)
(* switchMap((enabled) => (enabled ? pollLoopWith403Backoff$() : EMPTY)).   *)
(***************************************************************************)
EnabledEmits(v) ==
    /\ stream = "open"
    /\ signals < MaxSignals
    /\ v => fetches < MaxFetches
    /\ signals' = signals + 1
    /\ enabled' = IF v THEN "on" ELSE "off"
    /\ discarded' = Dropped(loops, discarded)
    /\ IF v
       THEN /\ nloops' = nloops + 1
            /\ loops' = [SwitchMapUnsubscribe(loops) EXCEPT
                            ![nloops + 1] = StartedLoop(now)]
            /\ fetches' = fetches + 1
            /\ logged' = <<"log:tick">>
       ELSE /\ loops' = SwitchMapUnsubscribe(loops)
            /\ logged' = <<>>
            /\ UNCHANGED << nloops, fetches >>
    /\ emitted' = <<>>
    /\ last' = [NoStep EXCEPT !.act = IF v THEN "on" ELSE "off",
                              !.loop = IF v THEN nloops + 1 ELSE 0,
                              !.prev = enabled, !.closed = ClosedPc(loops)]
    /\ UNCHANGED << now, cfg, stream, logins, updates, authAt, loginAt, verAt,
                    updateAt >>

(***************************************************************************)
(* The listFavoriteBusinesses() promise of loop i settles with an outcome:  *)
(* the retry/map/catchError of runOnce$, then the expand callback and the   *)
(* filter/map chain below it.  r / RandDenom is the value of Math.random(). *)
(***************************************************************************)
FetchSettles(i, outcome, r) ==
    LET l == loops[i]
        event == RunOnceEvent(outcome)
        after == Observe(l.st, event, now, Threshold, WindowMs, CooldownMs)
        is403 == event.kind = "error" /\ IsHttp403(event.err)
        armed == is403 /\ Arms403(l.st, now, Threshold, WindowMs)
        randomDelay == GetRandomPollingIntervalInMs(cfg, r)
        cooldownDelay == CooldownDelay(after.cooldownUntil, now)
        nextDelay == NextDelay(randomDelay, cooldownDelay)
    IN  /\ l.settleAt = {now}
        /\ IF l.pc = "fetching"
           THEN /\ loops' = [loops EXCEPT ![i] =
                      [ Rescheduled(l, event, now, nextDelay) EXCEPT
                          !.st = after,
                          !.calls = RetryInvocations(l.calls, outcome),
                          !.processedAt = now,
                          !.seen403 = IF armed THEN <<>>
                                      ELSE IF is403 THEN Append(l.seen403, now)
                                      ELSE l.seen403 ]]
                /\ emitted' = LoopEmissions(event)
                /\ logged' = ExpandLog(l.st, event, now, Threshold, WindowMs,
                                       CooldownMs)
                /\ last' = [NoStep EXCEPT !.act = "cycle", !.loop = i,
                                          !.outcome = outcome,
                                          !.delay = nextDelay,
                                          !.random = randomDelay]
           ELSE \* the subscriber is closed: the outcome reaches nobody
                /\ loops' = [loops EXCEPT ![i].settleAt = {}]
                /\ emitted' = <<>>
                /\ logged' = <<>>
                /\ last' = [NoStep EXCEPT !.act = "stale", !.loop = i,
                                          !.outcome = outcome]
        /\ UNCHANGED << now, cfg, enabled, signals, stream, nloops, fetches,
                        logins, updates, authAt, loginAt, verAt, updateAt,
                        discarded >>

(***************************************************************************)
(* timer(nextDelay) of loop i fires: mergeMap(() => runOnce$()) invokes     *)
(* listFavoriteBusinesses() again.                                          *)
(***************************************************************************)
PollTimerFires(i) ==
    /\ loops[i].timerAt = {now}
    /\ fetches < MaxFetches
    /\ loops' = [loops EXCEPT ![i].pc = "fetching", ![i].timerAt = {},
                              ![i].settleAt = {now + SlowCall},
                              ![i].calls = 1]
    /\ fetches' = fetches + 1
    /\ emitted' = <<>>
    /\ logged' = <<"log:tick">>
    /\ last' = [NoStep EXCEPT !.act = "fetch", !.loop = i]
    /\ UNCHANGED << now, cfg, enabled, signals, stream, nloops, logins, updates,
                    authAt, loginAt, verAt, updateAt, discarded >>

(***************************************************************************)
(* An error notification of a side-effect stream is the error of            *)
(* merge(auth, update), of ignoreElements() and of merge(poll$,             *)
(* sideEffects$): the returned stream errors and merge unsubscribes every   *)
(* source: enabled$ with the running poll loop, and both timers.  Promises  *)
(* in flight settle unobserved.                                             *)
(***************************************************************************)
StreamErrors ==
    /\ stream' = "errored"
    /\ loops' = [i \in LoopIds |-> Unsubscribed(loops[i])]
    /\ discarded' = Dropped(loops, discarded)
    /\ authAt' = {}
    /\ loginAt' = {}
    /\ verAt' = {}
    /\ updateAt' = {}

(***************************************************************************)
(* authenticateByInterval$: timer(0, authenticationIntervalInMs) fires and  *)
(* mergeMap invokes login().  A call settles before the next fire.          *)
(***************************************************************************)
AuthTimerFires ==
    /\ authAt = {now}
    /\ loginAt = {}
    /\ logins < MaxFires
    /\ authAt' = {now + AuthenticationIntervalInMs}
    /\ loginAt' = {now + SlowCall}
    /\ logins' = logins + 1
    /\ emitted' = <<>>
    /\ logged' = <<>>
    /\ last' = [NoStep EXCEPT !.act = "login"]
    /\ UNCHANGED << now, cfg, enabled, signals, stream, loops, nloops, fetches,
                    updates, verAt, updateAt, discarded >>

\* the login() promise settles and its notification goes through
\* merge(auth, update), ignoreElements() and merge(poll$, sideEffects$)
LoginSettles(ok, e) ==
    LET n == LoginNotification(ok, e)
    IN  /\ loginAt = {now}
        /\ ok => e = NoOutcome.err
        /\ emitted' = IgnoreElements(n.values)
        /\ logged' = n.log
        /\ last' = [NoStep EXCEPT !.act = "login-settled",
                       !.outcome = [NoOutcome EXCEPT !.ok = ok, !.err = e],
                       !.closed = IF n.kind = "error" THEN ClosedPc(loops)
                                  ELSE "none"]
        /\ IF n.kind = "error"
           THEN StreamErrors
           ELSE /\ loginAt' = {}
                /\ UNCHANGED << stream, loops, authAt, verAt, updateAt,
                                discarded >>
        /\ UNCHANGED << now, cfg, enabled, signals, nloops, fetches, logins,
                        updates >>

(***************************************************************************)
(* updateAppVersionByInterval$: timer(0, APP_VERSION_REFRESH_INTERVAL)      *)
(* fires and mergeMap(updateAppVersion) invokes updateAppVersion().         *)
(***************************************************************************)
VersionTimerFires ==
    /\ verAt = {now}
    /\ updateAt = {}
    /\ updates < MaxFires
    /\ verAt' = {now + APP_VERSION_REFRESH_INTERVAL}
    /\ updateAt' = {now + SlowCall}
    /\ updates' = updates + 1
    /\ emitted' = <<>>
    /\ logged' = <<>>
    /\ last' = [NoStep EXCEPT !.act = "update"]
    /\ UNCHANGED << now, cfg, enabled, signals, stream, loops, nloops, fetches,
                    logins, authAt, loginAt, discarded >>

\* the updateAppVersion() promise settles and its notification goes through
\* merge(auth, update), ignoreElements() and merge(poll$, sideEffects$)
UpdateSettles(ok) ==
    LET n == UpdateNotification(ok)
    IN  /\ updateAt = {now}
        /\ emitted' = IgnoreElements(n.values)
        /\ logged' = n.log
        /\ last' = [NoStep EXCEPT !.act = "update-settled",
                       !.outcome = [NoOutcome EXCEPT !.ok = ok],
                       !.closed = IF n.kind = "error" THEN ClosedPc(loops)
                                  ELSE "none"]
        /\ IF n.kind = "error"
           THEN StreamErrors
           ELSE /\ updateAt' = {}
                /\ UNCHANGED << stream, loops, authAt, loginAt, verAt,
                                discarded >>
        /\ UNCHANGED << now, cfg, enabled, signals, nloops, fetches, logins,
                        updates >>

(***************************************************************************)
(* Time passes to the next pending deadline.                                *)
(***************************************************************************)
Advance ==
    /\ Deadlines # {}
    /\ \A dl \in Deadlines : dl > now
    /\ SetMin(Deadlines) <= MaxTime
    /\ now' = SetMin(Deadlines)
    /\ emitted' = <<>>
    /\ logged' = <<>>
    /\ last' = [NoStep EXCEPT !.act = "advance"]
    /\ UNCHANGED << cfg, enabled, signals, stream, loops, nloops, fetches,
                    logins, updates, authAt, loginAt, verAt, updateAt, discarded >>

Next ==
    \/ \E v \in BOOLEAN : EnabledEmits(v)
    \/ \E i \in LoopIds, outcome \in Outcomes, r \in {0, RandDenom - 1} :
          FetchSettles(i, outcome, r)
    \/ \E i \in LoopIds : PollTimerFires(i)
    \/ AuthTimerFires
    \/ \E ok \in BOOLEAN, e \in Errors \cup {NoOutcome.err} : LoginSettles(ok, e)
    \/ VersionTimerFires
    \/ \E ok \in BOOLEAN : UpdateSettles(ok)
    \/ Advance

Spec == Init /\ [][Next]_vars

\* every step but a value of enabled$: a timer fires, a promise settles or
\* time passes to the next deadline
Progress ==
    \/ \E i \in LoopIds, outcome \in Outcomes, r \in {0, RandDenom - 1} :
          FetchSettles(i, outcome, r)
    \/ \E i \in LoopIds : PollTimerFires(i)
    \/ AuthTimerFires
    \/ \E ok \in BOOLEAN, e \in Errors \cup {NoOutcome.err} : LoginSettles(ok, e)
    \/ VersionTimerFires
    \/ \E ok \in BOOLEAN : UpdateSettles(ok)
    \/ Advance

\* timers fire when they are due and promises settle; nothing makes enabled$
\* emit.  Time stops at a pending deadline until it has fired, so a step of
\* Progress is taken as long as one is possible.
Fairness == WF_vars(Progress)

FairSpec == Spec /\ Fairness

(***************************************************************************)
(* getRandomPollingIntervalInMs on its own: every combination of the three  *)
(* polling paths, each absent or one of a few integers, and every draw of   *)
(* Math.random().                                                           *)
(***************************************************************************)
\* what config.get returns for a polling path: nothing, or an integer
IntervalOptions ==
    { {} } \cup { {v} : v \in {0, 5000, 10000, 15000, 15002, 60000, 200000} }

IntervalConfigs ==
    { Cfg(mn, mx, lg, {}, {}, {}, {}) :
        mn \in IntervalOptions, mx \in IntervalOptions, lg \in IntervalOptions }

IntervalInit ==
    /\ now = 0
    /\ cfg \in IntervalConfigs
    /\ enabled = "none"
    /\ signals = 0
    /\ stream = "open"
    /\ loops = [i \in LoopIds |-> UnbornLoop]
    /\ nloops = 0
    /\ fetches = 0
    /\ logins = 0
    /\ updates = 0
    /\ authAt = {}
    /\ loginAt = {}
    /\ verAt = {}
    /\ updateAt = {}
    /\ emitted = <<>>
    /\ logged = <<>>
    /\ last = NoStep
    /\ discarded = FreshState

\* one call of getRandomPollingIntervalInMs(): last.random is what it returned
IntervalDrawn(r) ==
    /\ last' = [NoStep EXCEPT !.act = "interval",
                              !.random = GetRandomPollingIntervalInMs(cfg, r)]
    /\ UNCHANGED << now, cfg, enabled, signals, stream, loops, nloops, fetches,
                    logins, updates, authAt, loginAt, verAt, updateAt, emitted,
                    logged, discarded >>

IntervalNext == \E r \in 0 .. RandDenom - 1 : IntervalDrawn(r)

IntervalSpec == IntervalInit /\ [][IntervalNext]_vars

(***************************************************************************)
(* One poll loop on its own: the signal stays on and the side-effect timers *)
(* are left out.  The loop starts at time 0; each step is one cycle: the    *)
(* fetch in flight settles with any outcome, the expand callback processes  *)
(* it, and the fetch of the next cycle is invoked nextDelay later.          *)
(***************************************************************************)
\* the status an error holds in one of the four places: none, 403 or 500
StatusOptions == { {}, {HTTP_FORBIDDEN}, {500} }

\* errors with every combination of the four places
StatusErrors ==
    { Err(a, b, c, d, FALSE, TRUE) :
        a \in StatusOptions, b \in StatusOptions,
        c \in StatusOptions, d \in StatusOptions }

\* a success, and a rejection with each error of Errors
TrackerOutcomes ==
    { [ok |-> TRUE, response |-> [items |-> Arr(<<"a", "b">>)],
       err |-> Err({}, {}, {}, {}, FALSE, FALSE)] }
    \cup { [ok |-> FALSE, response |-> [items |-> JsUndefined], err |-> e]
              : e \in Errors }

\* a success, and a rejection with each error of StatusErrors
ClassifyOutcomes ==
    { [ok |-> TRUE, response |-> [items |-> Arr(<<"a", "b">>)],
       err |-> Err({}, {}, {}, {}, FALSE, FALSE)] }
    \cup { [ok |-> FALSE, response |-> [items |-> JsUndefined], err |-> e]
              : e \in StatusErrors }

\* polling interval 80000 .. 480000; threshold, window and cooldown: the
\* defaults, a window longer than the cooldown, a threshold of 1 with a
\* negative cooldown, and a threshold of 0
TrackerConfigs ==
    { Cfg({80000}, {480000}, {}, {}, {}, {}, {}),
      Cfg({80000}, {480000}, {}, {}, {2}, {500000}, {200000}),
      Cfg({80000}, {480000}, {}, {}, {1}, {}, {-1000000}),
      Cfg({80000}, {480000}, {}, {}, {0}, {100000}, {100000}) }

TrackerInit ==
    /\ now = 0
    /\ cfg \in TrackerConfigs
    /\ enabled = "on"
    /\ signals = 1
    /\ stream = "open"
    /\ loops = [i \in LoopIds |-> IF i = 1 THEN StartedLoop(0) ELSE UnbornLoop]
    /\ nloops = 1
    /\ fetches = 1
    /\ logins = 0
    /\ updates = 0
    /\ authAt = {}
    /\ loginAt = {}
    /\ verAt = {}
    /\ updateAt = {}
    /\ emitted = <<>>
    /\ logged = <<"log:tick">>
    /\ last = [NoStep EXCEPT !.act = "on", !.loop = 1]
    /\ discarded = FreshState

\* one cycle of the loop: time passes to the settling of the fetch in flight,
\* the expand callback processes the outcome at that time t, and the timer
\* and the next invocation follow (the next fetch settles SlowCall after
\* the timer)
TrackerCycle(outcome, r) ==
    LET l == loops[1]
        t == Val(l.settleAt)
        event == RunOnceEvent(outcome)
        after == Observe(l.st, event, t, Threshold, WindowMs, CooldownMs)
        is403 == event.kind = "error" /\ IsHttp403(event.err)
        armed == is403 /\ Arms403(l.st, t, Threshold, WindowMs)
        randomDelay == GetRandomPollingIntervalInMs(cfg, r)
        cooldownDelay == CooldownDelay(after.cooldownUntil, t)
        nextDelay == NextDelay(randomDelay, cooldownDelay)
    IN  /\ l.pc = "fetching"
        /\ t <= TrackerMaxTime
        /\ now' = t
        /\ loops' = [loops EXCEPT ![1] =
              [ l EXCEPT
                  !.st = after,
                  !.seen403 = IF armed THEN <<>>
                              ELSE IF is403 THEN Append(l.seen403, t)
                              ELSE l.seen403,
                  !.calls = RetryInvocations(l.calls, outcome),
                  !.processedAt = t,
                  !.settleAt = {t + nextDelay + SlowCall} ]]
        /\ fetches' = fetches + 1
        /\ emitted' = LoopEmissions(event)
        /\ logged' = ExpandLog(l.st, event, t, Threshold, WindowMs, CooldownMs)
        /\ last' = [NoStep EXCEPT !.act = "cycle", !.loop = 1,
                                  !.outcome = outcome, !.delay = nextDelay,
                                  !.random = randomDelay]
        /\ UNCHANGED << cfg, enabled, signals, stream, nloops,
                        logins, updates, authAt, loginAt, verAt, updateAt,
                        discarded >>

TrackerNext ==
    \E outcome \in TrackerOutcomes, r \in 0 .. RandDenom - 1 :
        TrackerCycle(outcome, r)

TrackerSpec == TrackerInit /\ [][TrackerNext]_vars

\* the first cycles of the loop, the fetch rejecting with any shape of error
ClassifyNext ==
    \E outcome \in ClassifyOutcomes, r \in 0 .. RandDenom - 1 :
        /\ fetches <= MaxClassifyCycles
        /\ TrackerCycle(outcome, r)

ClassifySpec == TrackerInit /\ [][ClassifyNext]_vars

TypeOK ==
    /\ now \in 0 .. MaxTime
    /\ enabled \in {"none", "on", "off"}
    /\ stream \in {"open", "errored"}
    /\ nloops \in 0 .. MaxLoops
    /\ fetches \in 0 .. MaxFetches

(***************************************************************************)
(* Properties.                                                              *)
(***************************************************************************)
ActiveLoops == { i \in LoopIds : Active(loops[i]) }

\* the last step was a cycle of loop i: an outcome went through expand
CycleOf(i) == last.act = "cycle" /\ last.loop = i

\* the 403 failures among ts that lie within windowMs of time t
InWindowCount(ts, t, windowMs) ==
    Cardinality({ k \in 1 .. Len(ts) : t - ts[k] <= windowMs })

\* C1: in one loop instance, a cycle processed before cooldownUntil computes
\* a delay of at least cooldownUntil - now, whatever the random interval is;
\* the pending timer is never due before cooldownUntil, and the instance
\* starts no fetch before it.
C1_DelayCoversCooldown ==
    \A i \in LoopIds :
        /\ CycleOf(i) => last.delay >= loops[i].st.cooldownUntil - now
        /\ CycleOf(i) => last.delay >= last.random
        /\ loops[i].timerAt # {} =>
              Val(loops[i].timerAt) >= loops[i].st.cooldownUntil
        /\ (last.act = "fetch" /\ last.loop = i) =>
              now >= loops[i].st.cooldownUntil

\* a cycle has just armed or met a cooldown that outlasts the random interval
C1_Witness ==
    \E i \in LoopIds :
        /\ CycleOf(i)
        /\ loops[i].st.cooldownUntil > now
        /\ last.random < loops[i].st.cooldownUntil - now
        /\ loops[i].timerAt = {loops[i].st.cooldownUntil}

\* C2: a cycle arms a cooldown (cooldownUntil changes) if and only if its
\* outcome is an HTTP-403 failure and the 403 failures the instance has seen
\* since it last armed (or started) that lie within windowMs of now, the
\* current one included, number at least threshold; the cooldown armed ends
\* cooldownMs after now.
C2_ArmsIffThresholdInWindow ==
    [][ \A i \in LoopIds :
          (loops[i].pc = "fetching" /\ loops'[i].pc = "scheduled") =>
            LET is403 == ~last'.outcome.ok /\ IsHttp403(last'.outcome.err)
                count == InWindowCount(loops[i].seen403, now, WindowMs)
                         + (IF is403 THEN 1 ELSE 0)
                armed == loops'[i].st.cooldownUntil # loops[i].st.cooldownUntil
            IN  /\ armed <=> (is403 /\ count >= Threshold)
                /\ armed => loops'[i].st.cooldownUntil = now + CooldownMs
      ]_vars

\* with threshold 3, the third 403 within the window has armed the cooldown
C2_Witness ==
    \E i \in LoopIds :
        /\ CycleOf(i)
        /\ Threshold = 3
        /\ ~last.outcome.ok
        /\ loops[i].st.cooldownUntil = now + CooldownMs
        /\ "warn:backoff-triggered" \in { logged[k] : k \in 1 .. Len(logged) }

\* C3: the loop an 'on' starts begins with an empty 403 sequence and no
\* cooldown; nothing of an earlier loop is in the state of a running one:
\* every stored timestamp and every cooldown was produced after its start.
C3_FreshStateOnRestart ==
    /\ last.act = "on" =>
          /\ loops[last.loop].st = FreshState
          /\ loops[last.loop].pc = "fetching"
    /\ \A i \in ActiveLoops :
          /\ \A k \in 1 .. Len(loops[i].st.error403Timestamps) :
                loops[i].st.error403Timestamps[k] > loops[i].startedAt
          /\ \/ loops[i].st.cooldownUntil = 0
             \/ loops[i].st.cooldownUntil > loops[i].startedAt + CooldownMs
          /\ Len(loops[i].st.error403Timestamps) <= Len(loops[i].seen403)

\* off then on: a loop has just started while the cooldown the previous loop
\* had armed has not run out
C3_Witness ==
    /\ last.act = "on"
    /\ last.prev = "off"
    /\ discarded.cooldownUntil > now
    /\ nloops >= 2

\* C4: no loop instance is active unless the latest value is 'on', and then
\* at most one is; no timer of a loop is pending and no fetch is started
\* while it is 'off' (or before the first 'on').
C4_GatedBySignal ==
    /\ Cardinality(ActiveLoops) <= (IF enabled = "on" THEN 1 ELSE 0)
    /\ \A i \in LoopIds : loops[i].timerAt # {} => Active(loops[i])
    /\ enabled # "on" => \A i \in LoopIds : loops[i].timerAt = {}
    /\ last.act = "fetch" => enabled = "on" /\ Active(loops[last.loop])
    /\ fetches > 0 => enabled # "none"

\* an 'off' has just cancelled the pending wait of the running loop
C4_Witness ==
    /\ last.act = "off"
    /\ last.prev = "on"
    /\ last.closed = "scheduled"
    /\ \A i \in LoopIds : loops[i].timerAt = {}

\* a bound of the model keeps every timer from firing: the fetches are used
\* up, a periodic timer is due and has used up its fires, or the next
\* deadline lies beyond the horizon
Halted ==
    \/ fetches >= MaxFetches
    \/ authAt = {now} /\ logins >= MaxFires
    \/ verAt = {now} /\ updates >= MaxFires
    \/ Deadlines # {} /\ SetMin(Deadlines) > MaxTime

\* C5: no outcome of a fetch ends the loop.  Every cycle, whatever its
\* outcome, leaves the instance waiting for a timer due nextDelay later; and
\* with timers that fire and promises that settle, a cycle is followed by the
\* start of the next fetch, unless the loop is unsubscribed from outside
\* first (a value of enabled$, or the returned stream ending).
C5_EveryOutcomeReschedules ==
    /\ [](\A i \in LoopIds :
            CycleOf(i) => /\ loops[i].pc = "scheduled"
                          /\ loops[i].timerAt = {now + last.delay})
    /\ (last.act = "cycle") ~>
          \/ last.act = "fetch"
          \/ last.act \in {"on", "off"}
          \/ stream = "errored"
          \/ (\E i \in LoopIds : loops[i].timerAt # {}) /\ Halted

\* the timer of a cycle that failed with a 403 and armed a cooldown has fired
\* and the instance has started its next fetch
C5_Witness ==
    \E i \in LoopIds :
        /\ last.act = "fetch"
        /\ last.loop = i
        /\ loops[i].st.cooldownUntil > 0
        /\ loops[i].pc = "fetching"

\* the last step settled a rejected updateAppVersion() promise
UpdateFailed == last.act = "update-settled" /\ ~last.outcome.ok

\* the last step settled a login() promise that rejected
LoginFailed == last.act = "login-settled" /\ ~last.outcome.ok

\* C6: a failing updateAppVersion call does not stop the version-refresh
\* timer: after it the timer is still pending, due at the next multiple of
\* 24 h.
C6_FailedUpdateKeepsTimer ==
    UpdateFailed => verAt = {updates * APP_VERSION_REFRESH_INTERVAL}

\* C7: a failure of updateAppVersion is logged only: the returned stream
\* stays open, the running poll loop keeps running and the authentication
\* timer stays pending.
C7_FailedUpdateIsLoggedOnly ==
    UpdateFailed =>
        /\ stream = "open"
        /\ last.closed = "none"
        /\ Cardinality(ActiveLoops) = (IF enabled = "on" THEN 1 ELSE 0)
        /\ authAt # {}

\* C8: the authentication timer fires at subscription time and then every
\* max(configured interval, 3600000) ms (3600000 when none is configured); a
\* login that failed is logged, and leaves the timer pending for its next
\* period, the returned stream open and the poll loop running.
C8_LoginFailureKeepsTimer ==
    LET period == IF cfg.authenticationIntervalInMS = {}
                  THEN MINIMAL_AUTHENTICATION_INTERVAL
                  ELSE Max(Val(cfg.authenticationIntervalInMS),
                           MINIMAL_AUTHENTICATION_INTERVAL)
    IN  /\ last.act = "login" =>
              /\ now = (logins - 1) * period
              /\ authAt = {logins * period}
        /\ LoginFailed =>
              /\ logged = LogError(last.outcome.err)
              /\ Len(logged) = 1
              /\ stream = "open"
              /\ authAt = {logins * period}
              /\ last.closed = "none"
              /\ Cardinality(ActiveLoops) = (IF enabled = "on" THEN 1 ELSE 0)

\* a login has failed while a poll loop is running
C8_Witness ==
    /\ LoginFailed
    /\ enabled = "on"
    /\ ActiveLoops # {}
    /\ logins = 2

\* C9: the two timers fire on their fixed periods whatever enabled$ emits:
\* while the returned stream is open each has fired at every multiple of its
\* period reached so far and at no other time, and is pending for the next;
\* and nothing but a poll cycle delivers a value to the subscriber.
C9_TimersIgnoreSignal ==
    /\ stream = "open" =>
          /\ authAt = {logins * AuthenticationIntervalInMs}
          /\ now <= logins * AuthenticationIntervalInMs
          /\ verAt = {updates * APP_VERSION_REFRESH_INTERVAL}
          /\ now <= updates * APP_VERSION_REFRESH_INTERVAL
    /\ last.act = "login" => now = (logins - 1) * AuthenticationIntervalInMs
    /\ last.act = "update" => now = (updates - 1) * APP_VERSION_REFRESH_INTERVAL
    /\ last.act # "cycle" => emitted = <<>>

\* the version-refresh timer has fired for the second time, 24 h after the
\* first, while the signal is off
C9_Witness ==
    /\ last.act = "update"
    /\ updates = 2
    /\ now = APP_VERSION_REFRESH_INTERVAL
    /\ enabled = "off"

\* C10 as claimed: a cycle emits the items of its response exactly when it
\* succeeded with a non-empty items field, and nothing otherwise; in every
\* case the next cycle is scheduled.
C10_EmitsIffNonEmptyItems ==
    \A i \in LoopIds :
        CycleOf(i) =>
            LET o == last.outcome
                nonEmpty == /\ o.ok
                            /\ o.response.items.t = "array"
                            /\ Len(o.response.items.v) > 0
            IN  /\ emitted = (IF nonEmpty THEN <<o.response.items>> ELSE <<>>)
                /\ loops[i].pc = "scheduled"
                /\ loops[i].timerAt # {}

\* C10 as amended: a cycle emits the items of its response exactly when it
\* succeeded and the items field is truthy (present and not null; an empty
\* array counts), and nothing otherwise; in every case the next cycle is
\* scheduled.
C10_EmitsIffItemsTruthy ==
    \A i \in LoopIds :
        CycleOf(i) =>
            LET o == last.outcome
                present == o.ok /\ o.response.items.t \notin {"undefined", "null"}
            IN  /\ emitted = (IF present THEN <<o.response.items>> ELSE <<>>)
                /\ loops[i].pc = "scheduled"
                /\ loops[i].timerAt # {}

\* a cycle has emitted the empty array of a successful response
C10_Witness ==
    \E i \in LoopIds :
        /\ CycleOf(i)
        /\ last.outcome.ok
        /\ last.outcome.response.items = Arr(<<>>)
        /\ emitted = <<Arr(<<>>)>>
        /\ loops[i].pc = "scheduled"

\* C11 as claimed: when a cycle is classified Failure, listFavoriteBusinesses
\* has been invoked for it once and then again for each of the 2 retries (3
\* invocations); a Success took between 1 and 3.
C11_FailedFetchIsInvokedAgain ==
    \A i \in LoopIds :
        CycleOf(i) =>
            /\ ~last.outcome.ok => loops[i].calls = 1 + RETRY_COUNT
            /\ last.outcome.ok => loops[i].calls \in 1 .. 1 + RETRY_COUNT

\* C12: the cycles of one loop instance are serialized.  An instance awaits
\* either one fetch or one timer, never both; processing an outcome starts no
\* fetch; the timer set by a cycle is due the computed delay later and stays
\* as set while the instance waits; and after its first fetch an instance
\* starts a fetch only when that timer is due, no fetch being in flight.
C12_CyclesAreSerialized ==
    /\ [](\A i \in LoopIds :
            /\ loops[i].pc = "fetching" =>
                  /\ Cardinality(loops[i].settleAt) = 1
                  /\ loops[i].timerAt = {}
            /\ loops[i].pc = "scheduled" =>
                  /\ Cardinality(loops[i].timerAt) = 1
                  /\ loops[i].settleAt = {}
            /\ CycleOf(i) => loops[i].timerAt = {now + last.delay})
    /\ [][ \A i \in LoopIds :
            /\ (loops[i].pc = "fetching" /\ loops'[i].pc = "scheduled") =>
                  fetches' = fetches
            /\ (loops[i].pc = "scheduled" /\ loops'[i].pc = "scheduled") =>
                  /\ loops'[i].timerAt = loops[i].timerAt
                  /\ now' <= Val(loops[i].timerAt)
            /\ (loops[i].pc # "unborn" /\ loops'[i].settleAt # {}
                  /\ loops'[i].settleAt # loops[i].settleAt) =>
                  /\ loops[i].pc = "scheduled"
                  /\ loops[i].settleAt = {}
                  /\ loops[i].timerAt = {now}
                  /\ fetches' = fetches + 1
       ]_vars

\* an instance has started its second fetch, a full delay after it processed
\* the outcome of its first, which armed no cooldown
C12_Witness ==
    \E i \in LoopIds :
        /\ last.act = "fetch"
        /\ last.loop = i
        /\ fetches >= 2
        /\ loops[i].st.cooldownUntil = 0
        /\ loops[i].settleAt = {now + SlowCall}
        /\ now - loops[i].processedAt >= MINIMAL_POLLING_INTERVAL

\* the pair (min, max) the configuration stands for before clamping: the
\* legacy value twice, or the defaults, when neither bound is configured;
\* else the configured bounds, a missing one defaulted
ConfiguredPair(c) ==
    IF c.pollingIntervalMinInMs = {} /\ c.pollingIntervalMaxInMs = {}
    THEN IF c.pollingIntervalInMs # {}
         THEN << Val(c.pollingIntervalInMs), Val(c.pollingIntervalInMs) >>
         ELSE << DEFAULT_POLLING_MIN_MS, DEFAULT_POLLING_MAX_MS >>
    ELSE << IF c.pollingIntervalMinInMs # {} THEN Val(c.pollingIntervalMinInMs)
            ELSE DEFAULT_POLLING_MIN_MS,
            IF c.pollingIntervalMaxInMs # {} THEN Val(c.pollingIntervalMaxInMs)
            ELSE DEFAULT_POLLING_MAX_MS >>

EffMin(c) == Max(ConfiguredPair(c)[1], MINIMAL_POLLING_INTERVAL)

EffMax(c) == Max(ConfiguredPair(c)[2], EffMin(c))

\* C13: for every combination of integer values of the three polling paths,
\* getRandomPollingIntervalInMs returns an integer in [effMin, effMax]; a
\* legacy-only value of at least 15000 is returned as it is, and min 5000
\* with max 10000 gives 15000.
C13_IntervalInEffectiveRange ==
    last.act = "interval" =>
        /\ last.random \in EffMin(cfg) .. EffMax(cfg)
        /\ ( /\ cfg.pollingIntervalMinInMs = {}
             /\ cfg.pollingIntervalMaxInMs = {}
             /\ cfg.pollingIntervalInMs # {}
             /\ Val(cfg.pollingIntervalInMs) >= MINIMAL_POLLING_INTERVAL )
              => last.random = Val(cfg.pollingIntervalInMs)
        /\ ( cfg.pollingIntervalMinInMs = {5000}
             /\ cfg.pollingIntervalMaxInMs = {10000} )
              => last.random = MINIMAL_POLLING_INTERVAL

\* with min 15000 and max 15002 configured and a legacy value beside them,
\* the greatest value of the range has been drawn
C13_Witness ==
    /\ last.act = "interval"
    /\ cfg.pollingIntervalMinInMs = {15000}
    /\ cfg.pollingIntervalMaxInMs = {15002}
    /\ cfg.pollingIntervalInMs = {60000}
    /\ last.random = 15002

\* the last step wrote m to the console
Logged(m) == \E k \in 1 .. Len(logged) : logged[k] = m

\* C14: in one loop lifetime cooldownUntil never decreases: every cycle
\* leaves it equal or larger; a cycle that arms a cooldown sets it to the
\* larger of its previous value and now + cooldownMs, and any other cycle
\* leaves it as it was.
C14_CooldownNeverDecreases ==
    [][ LET before == loops[1].st.cooldownUntil
            after == loops'[1].st.cooldownUntil
        IN  /\ after >= before
            /\ Logged("warn:backoff-triggered")' =>
                  after = (IF before >= now' + CooldownMs THEN before
                           ELSE now' + CooldownMs)
            /\ ~Logged("warn:backoff-triggered")' => after = before
      ]_vars

\* a cycle has armed a cooldown that would end before the value cooldownUntil
\* already had, and the previous value stands
C14_Witness ==
    /\ CycleOf(1)
    /\ Logged("warn:backoff-triggered")
    /\ loops[1].st.cooldownUntil > now + CooldownMs

\* C15: a cycle that arms a cooldown leaves the 403 sequence empty; an
\* arming takes threshold 403 failures since the previous arming (or the
\* start) of which the last threshold lie within windowMs of each other; and
\* with threshold >= 2 a 403 right after an arming arms nothing.
C15_ArmingClearsSequence ==
    /\ [](Logged("warn:backoff-triggered") =>
            loops[1].st.error403Timestamps = <<>>)
    /\ [][ /\ (Logged("warn:backoff-triggered")' /\ Threshold >= 1) =>
                LET all == Append(loops[1].seen403, now')
                IN  /\ Len(all) >= Threshold
                    /\ now' - all[Len(all) - Threshold + 1] <= WindowMs
            /\ (Threshold >= 2 /\ loops[1].seen403 = <<>>) =>
                ~Logged("warn:backoff-triggered")'
       ]_vars

\* with threshold 2, the first 403 after an arming, within windowMs of the
\* failures that armed it, has been stored and has armed nothing
C15_Witness ==
    /\ CycleOf(1)
    /\ Threshold = 2
    /\ Logged("warn:403")
    /\ ~Logged("warn:backoff-triggered")
    /\ loops[1].st.cooldownUntil > 0
    /\ loops[1].st.error403Timestamps = <<now>>
    /\ now - (loops[1].st.cooldownUntil - CooldownMs) <= WindowMs

\* C16: a cycle whose outcome is a success, or a failure not handled as an
\* HTTP 403, leaves the 403 sequence and cooldownUntil as they were.
C16_OtherOutcomesKeepState ==
    [][ (last'.outcome.ok \/ ~Logged("warn:403")') =>
            loops'[1].st = loops[1].st ]_vars

\* a success has been processed while two 403 failures are stored, and they
\* still are
C16_Witness ==
    /\ CycleOf(1)
    /\ last.outcome.ok
    /\ Len(loops[1].st.error403Timestamps) = 2
    /\ loops[1].seen403 = loops[1].st.error403Timestamps

\* loop i is the instance the latest value of enabled$ started
CurrentLoop(i) == i = nloops /\ enabled = "on" /\ stream = "open"

\* C17: when the fetch of a loop that has been unsubscribed settles (the
\* signal is off, or it is on again and a later loop is running), the result
\* is dropped: nothing is emitted, no loop's 403 sequence or cooldown changes,
\* no timer is set and no fetch is started.
C17_StaleResultIsDiscarded ==
    [][ \A i \in LoopIds :
          ( /\ loops[i].settleAt = {now}
            /\ loops'[i].settleAt # loops[i].settleAt
            /\ ~CurrentLoop(i) ) =>
              /\ emitted' = <<>>
              /\ logged' = <<>>
              /\ fetches' = fetches
              /\ \A j \in LoopIds :
                    /\ loops'[j].st = loops[j].st
                    /\ loops'[j].timerAt = loops[j].timerAt
                    /\ loops'[j].pc = loops[j].pc
      ]_vars

\* the fetch of the first loop, unsubscribed since, has settled with a 403
\* under threshold 1 while the signal is on again and the second loop, its
\* state untouched, awaits its own fetch
C17_Witness ==
    /\ last.act = "stale"
    /\ last.loop = 1
    /\ ~last.outcome.ok
    /\ IsHttp403(last.outcome.err)
    /\ Threshold = 1
    /\ enabled = "on"
    /\ nloops = 2
    /\ loops[2].pc = "fetching"
    /\ loops[2].st = FreshState
    /\ emitted = <<>>

\* the four places an error may hold a status in
StatusPlaces(e) == << e.rStatusCode, e.rStatus, e.statusCode, e.status >>

\* C18 as claimed: a failure is handled as an HTTP 403 (and adds a
\* timestamp) exactly when one of the four places holds 403.
C18_403InAnyPlace ==
    CycleOf(1) =>
        LET e == last.outcome.err
        IN  Logged("warn:403") <=>
              ( /\ ~last.outcome.ok
                /\ \E k \in 1 .. 4 : StatusPlaces(e)[k] = {HTTP_FORBIDDEN} )

\* C18 as amended: a failure is handled as an HTTP 403 exactly when the
\* first of the four places, in the order response.statusCode,
\* response.status, statusCode, status, that holds a value holds 403; and a
\* cycle changes the failure sequence only when its failure is so handled.
C18_403InFirstPlaceSet ==
    /\ [](CycleOf(1) =>
            LET e == last.outcome.err
            IN  Logged("warn:403") <=>
                  ( /\ ~last.outcome.ok
                    /\ \E k \in 1 .. 4 :
                          /\ StatusPlaces(e)[k] = {HTTP_FORBIDDEN}
                          /\ \A j \in 1 .. k - 1 : StatusPlaces(e)[j] = {} ))
    /\ [][ loops'[1].st.error403Timestamps # loops[1].st.error403Timestamps
              => Logged("warn:403")' ]_vars

\* an error with response.statusCode 500 and status 403 has been processed:
\* it is logged as an error, not handled as a 403, and no timestamp is stored
C18_Witness ==
    /\ CycleOf(1)
    /\ ~last.outcome.ok
    /\ last.outcome.err.rStatusCode = {500}
    /\ last.outcome.err.status = {HTTP_FORBIDDEN}
    /\ ~Logged("warn:403")
    /\ Logged("error:stack")
    /\ loops[1].st.error403Timestamps = <<>>

\* the last step invoked listFavoriteBusinesses for loop i: the first fetch
\* of a loop an 'on' started, or the fetch a loop timer started
StartedFetch(i) == last.act \in {"on", "fetch"} /\ last.loop = i

\* C19 as claimed: whatever enabled$ emits, a fetch starts at least 15000 ms
\* after the start of every earlier fetch: of the fetches still in flight,
\* in whatever loop instance, and of the previous fetch of the same instance.
C19_FloorAcrossInstances ==
    \A i \in LoopIds :
        StartedFetch(i) =>
            /\ \A j \in LoopIds \ {i} :
                  loops[j].settleAt # {} =>
                      now - (Val(loops[j].settleAt) - SlowCall)
                          >= MINIMAL_POLLING_INTERVAL
            /\ last.act = "fetch" =>
                  now - loops[i].processedAt >= MINIMAL_POLLING_INTERVAL

\* C19 as amended: within one loop instance a fetch starts at least 15000 ms
\* after the outcome of the previous fetch was processed, hence after its
\* start, in every configuration; the first fetch of a new loop instance
\* starts with the 'on' value that starts the loop.
C19_FloorWithinInstance ==
    \A i \in LoopIds :
        /\ (last.act = "fetch" /\ last.loop = i) =>
              /\ loops[i].processedAt >= loops[i].startedAt
              /\ now - loops[i].processedAt >= MINIMAL_POLLING_INTERVAL
        /\ (last.act = "on" /\ last.loop = i) =>
              /\ loops[i].startedAt = now
              /\ loops[i].settleAt = {now + SlowCall}
        /\ CycleOf(i) => last.random >= MINIMAL_POLLING_INTERVAL

\* with min 5000 and max 10000 configured, a loop has started a fetch exactly
\* 15000 ms after it processed the previous outcome
C19_Witness ==
    \E i \in LoopIds :
        /\ last.act = "fetch"
        /\ last.loop = i
        /\ cfg.pollingIntervalMinInMs = {5000}
        /\ now - loops[i].processedAt = MINIMAL_POLLING_INTERVAL

\* C20: with threshold >= 1, after every cycle the stored 403 sequence has
\* fewer than threshold entries; a cycle makes it longer by at most one; and
\* after a 403 cycle every stored timestamp lies within windowMs of the time
\* of that cycle.
C20_SequenceStaysBelowThreshold ==
    /\ [](Threshold >= 1 =>
            Len(loops[1].st.error403Timestamps) < Threshold)
    /\ [](CycleOf(1) /\ Logged("warn:403") =>
            \A k \in 1 .. Len(loops[1].st.error403Timestamps) :
                /\ now - loops[1].st.error403Timestamps[k] <= WindowMs
                /\ loops[1].st.error403Timestamps[k] <= now)
    /\ [][ Len(loops'[1].st.error403Timestamps)
              <= Len(loops[1].st.error403Timestamps) + 1 ]_vars

\* with threshold 3, the third 403 since the start has found the first one
\* out of the window: two timestamps are stored and no cooldown is armed
C20_Witness ==
    /\ CycleOf(1)
    /\ Threshold = 3
    /\ Logged("warn:403")
    /\ Len(loops[1].seen403) = 3
    /\ Len(loops[1].st.error403Timestamps) = 2
    /\ loops[1].st.cooldownUntil = 0

=============================================================================
